---- MODULE Spec2Model ----
(***************************************************************************)
(* Predeclared builtins of internal/core/compile/builtin.go: len, close,   *)
(* and, or, div, mod, quo, rem.  Values live in a heap (Go pointers); a    *)
(* builtin receives heap ids as arguments and returns a value.             *)
(***************************************************************************)
EXTENDS Integers, Sequences, FiniteSets, TLC

VARIABLES heap, op, args, ret, errs, pc, v, unifyCalls

vars == <<heap, op, args, ret, errs, pc, v, unifyCalls>>

\* ---------------------------------------------------------------- bounds
MaxCoeff == 7
MaxArcs == 2
MaxStrLen == 2
MaxHeap == 2

\* ---------------------------------------------------------------- kinds
StructKind == "StructKind"
BytesKind == "BytesKind"
StringKind == "StringKind"
ListKind == "ListKind"
IntKind == "IntKind"
FloatKind == "FloatKind"
BoolKind == "BoolKind"

\* adt.BottomKind is the empty bitset
BottomKind == {}

supportedByLen == {StructKind, BytesKind, StringKind, ListKind}

\* ---------------------------------------------------------------- values
Nil == [tag |-> "nil"]

ListMarker == [tag |-> "ListMarker"]

StructMarker(needClose) == [tag |-> "StructMarker", NeedClose |-> needClose]

Top == [tag |-> "Top"]

Bottom(code, msg) == [tag |-> "Bottom", Code |-> code, msg |-> msg]

Ref(id) == [tag |-> "ref", id |-> id]

Panic(msg) == [tag |-> "panic", msg |-> msg]

Decimal(neg, coeff, exp) == [Negative |-> neg, Coeff |-> coeff, Exponent |-> exp]

Num(k, d) == [tag |-> "Num", K |-> k, X |-> d]

Vertex(bv, arcs, closed, conjuncts, status) ==
    [tag |-> "Vertex", BaseValue |-> bv, Arcs |-> arcs, Closed |-> closed,
     Conjuncts |-> conjuncts, status |-> status]

Labels == {"IntLabel", "StringLabel", "HiddenLabel", "DefinitionLabel"}

ElemVals == {"a", "b"}

Exponents == {-1, 0, 1}

IsRegular(label) == label \in {"IntLabel", "StringLabel"}

IsInt(label) == label = "IntLabel"

\* ---------------------------------------------------------------- context
NewErrf(msg) == Bottom("Error", msg)

NewInt64(n) == Num(IntKind, Decimal(n < 0, IF n < 0 THEN -n ELSE n, 0))

\* adt.Value.Kind()
Kind(x) ==
    CASE x.tag = "Bottom" -> BottomKind
      [] x.tag = "Num" -> {x.K}
      [] x.tag = "Bytes" -> {BytesKind}
      [] x.tag = "String" -> {StringKind}
      [] x.tag = "Bool" -> {BoolKind}
      [] x.tag = "BasicType" -> x.K
      [] x.tag = "Top" -> {StructKind, BytesKind, StringKind, ListKind, IntKind, FloatKind, BoolKind}
      [] x.tag = "Vertex" ->
            (CASE x.BaseValue.tag = "ListMarker" -> {ListKind}
               [] x.BaseValue.tag = "StructMarker" -> {StructKind}
               [] OTHER -> BottomKind)
      [] OTHER -> BottomKind

IsConcrete(x) ==
    \/ x.tag \in {"Num", "Bytes", "String", "Bool"}
    \/ x.tag = "Vertex" /\ x.BaseValue.tag \in {"ListMarker", "StructMarker"}

RECURSIVE SelectArcs(_, _)
SelectArcs(arcs, intOnly) ==
    IF arcs = <<>> THEN <<>>
    ELSE LET rest == SelectArcs(Tail(arcs), intOnly) IN
         IF intOnly => IsInt(Head(arcs).Label) THEN <<Head(arcs)>> \o rest ELSE rest

\* (*Vertex).Elems: the arcs that are list elements
VertexElems(x) == SelectArcs(x.Arcs, TRUE)

\* (*OpContext).Elems: the element values of a list, in order
Elems(h, id) ==
    LET x == h[id] IN
    IF x.tag = "Vertex" /\ x.BaseValue.tag = "ListMarker"
    THEN [i \in 1..Len(VertexElems(x)) |-> VertexElems(x)[i].val]
    ELSE <<>>

\* (*Vertex).IsClosed
IsClosed(x) ==
    /\ x.tag = "Vertex"
    /\ x.BaseValue.tag = "StructMarker"
    /\ (x.BaseValue.NeedClose \/ x.Closed)

\* (*OpContext).Num: the Num behind a value, or the failure of the conversion
NumConv(x) ==
    CASE x.tag = "Num" -> [ok |-> TRUE, num |-> x, err |-> Nil]
      [] x.tag = "Bottom" -> [ok |-> FALSE, num |-> Nil, err |-> x]
      [] x.tag = "Vertex" /\ x.BaseValue.tag = "Num" -> [ok |-> TRUE, num |-> x.BaseValue, err |-> Nil]
      [] x.tag = "Vertex" /\ x.BaseValue.tag = "Bottom" -> [ok |-> FALSE, num |-> Nil, err |-> x.BaseValue]
      [] x.tag \in {"BasicType", "Top"} /\ Kind(x) \cap {IntKind, FloatKind} # {} ->
            [ok |-> FALSE, num |-> Nil, err |-> Bottom("IncompleteError", "non-concrete value")]
      [] OTHER -> [ok |-> FALSE, num |-> Nil, err |-> Bottom("Error", "cannot use value as type number")]

\* (*OpContext).Unify(c, v, adt.Finalized)
Unify(x) == [x EXCEPT !.status = "Finalized"]

\* ---------------------------------------------------------------- numerics
Abs(n) == IF n < 0 THEN -n ELSE n

RECURSIVE Pow10(_)
Pow10(n) == IF n <= 0 THEN 1 ELSE 10 * Pow10(n - 1)

\* apd.Context.RoundToIntegralValue under apd.BaseContext (half up on the
\* magnitude): the result has exponent 0 and the sign flag of its input
RoundToIntegralValue(d) ==
    IF d.Exponent >= 0
    THEN Decimal(d.Negative, d.Coeff * Pow10(d.Exponent), 0)
    ELSE LET p == Pow10(-d.Exponent)
             q == d.Coeff \div p
             r == d.Coeff % p
         IN Decimal(d.Negative, IF 2 * r >= p THEN q + 1 ELSE q, 0)

\* x.Coeff.Neg(&x.Coeff) when x.Negative: sign flag and magnitude to signed
Signed(d) == IF d.Negative THEN -d.Coeff ELSE d.Coeff

\* (*big.Int).Quo: truncated quotient, y # 0
bigQuo(x, y) ==
    LET q == Abs(x) \div Abs(y) IN IF (x < 0) # (y < 0) THEN -q ELSE q

\* (*big.Int).Rem: truncated remainder, y # 0
bigRem(x, y) ==
    LET r == Abs(x) % Abs(y) IN IF x < 0 THEN -r ELSE r

\* (*big.Int).Div: Euclidean quotient, y # 0
bigDiv(x, y) ==
    LET q == bigQuo(x, y)
        r == bigRem(x, y)
    IN IF r < 0 THEN (IF y < 0 THEN q + 1 ELSE q - 1) ELSE q

\* (*big.Int).Mod: Euclidean modulus, y # 0
bigMod(x, y) ==
    LET r == bigRem(x, y)
    IN IF r < 0 THEN (IF y < 0 THEN r - y ELSE r + y) ELSE r

ApplyFn(fn, x, y) ==
    CASE fn = "Div" -> bigDiv(x, y)
      [] fn = "Mod" -> bigMod(x, y)
      [] fn = "Quo" -> bigQuo(x, y)
      [] fn = "Rem" -> bigRem(x, y)

\* d.Coeff.Sign() < 0: signed result back to sign flag and magnitude
FromSigned(n) == Decimal(n < 0, Abs(n), 0)

Result(h, r, e) == [heap |-> h, ret |-> r, errs |-> e]

intDivOp(h, fn, a) ==
    LET ca == NumConv(h[a[1]])
        cb == NumConv(h[a[2]])
    IN IF ~ca.ok \/ ~cb.ok
       THEN Result(h, Nil, IF ~ca.ok THEN ca.err ELSE cb.err)
       ELSE IF cb.num.X.Coeff = 0
       THEN Result(h, NewErrf("division by zero"), Nil)
       ELSE LET x == Signed(RoundToIntegralValue(ca.num.X))
                y == Signed(RoundToIntegralValue(cb.num.X))
            IN IF y = 0
               THEN Result(h, Panic("division by zero"), Nil)
               ELSE Result(h, Num(IntKind, FromSigned(ApplyFn(fn, x, y))), Nil)

divBuiltin(h, a) == intDivOp(h, "Div", a)

modBuiltinRem(h, a) == intDivOp(h, "Rem", a)

modBuiltin(h, a) == intDivOp(h, "Mod", a)

quoBuiltinDiv(h, a) == intDivOp(h, "Div", a)

quoBuiltin(h, a) == intDivOp(h, "Quo", a)

remBuiltin(h, a) == intDivOp(h, "Rem", a)

\* ---------------------------------------------------------------- len
RECURSIVE CountAll(_)
CountAll(arcs) == IF arcs = <<>> THEN 0 ELSE 1 + CountAll(Tail(arcs))

RECURSIVE CountRegular(_)
CountRegular(arcs) ==
    IF arcs = <<>> THEN 0
    ELSE (IF IsRegular(Head(arcs).Label) THEN 1 ELSE 0) + CountRegular(Tail(arcs))

lenDefaultHard(x) ==
    LET k == Kind(x) IN
    IF k \cap supportedByLen = BottomKind
    THEN NewErrf("invalid argument type")
    ELSE NewErrf("incomplete argument")

lenDefault(x) ==
    LET k == Kind(x) IN
    IF k \cap supportedByLen = BottomKind
    THEN NewErrf("invalid argument type")
    ELSE [NewErrf("incomplete argument") EXCEPT !.Code = "IncompleteError"]

lenBuiltin(h, a) ==
    LET x == h[a[1]] IN
    IF x.tag = "Vertex" /\ x.BaseValue.tag = "nil"
    THEN Result(h, NewErrf("unevaluated vertex"), Nil)
    ELSE IF x.tag = "Vertex" /\ x.BaseValue.tag = "ListMarker"
    THEN Result(h, NewInt64(Len(VertexElems(x))), Nil)
    ELSE IF x.tag = "Vertex" /\ x.BaseValue.tag = "StructMarker"
    THEN Result(h, NewInt64(CountRegular(x.Arcs)), Nil)
    ELSE LET u == IF x.tag = "Vertex" THEN x.BaseValue ELSE x IN
         CASE u.tag = "Bytes" -> Result(h, NewInt64(Len(u.B)), Nil)
           [] u.tag = "String" -> Result(h, NewInt64(Len(u.Str)), Nil)
           [] OTHER -> Result(h, lenDefault(u), Nil)

\* ---------------------------------------------------------------- close
closeBuiltinAlwaysCopy(h, a) ==
    LET s == h[a[1]] IN
    IF s.tag # "Vertex"
    THEN Result(h, NewErrf("struct argument must be concrete"), Nil)
    ELSE Result(Append(h, [s EXCEPT !.BaseValue = StructMarker(TRUE)]), Ref(Len(h) + 1), Nil)

closeBuiltinInPlace(h, a) ==
    LET s == h[a[1]] IN
    IF s.tag # "Vertex"
    THEN Result(h, NewErrf("struct argument must be concrete"), Nil)
    ELSE IF IsClosed(s)
    THEN Result(h, Ref(a[1]), Nil)
    ELSE Result([h EXCEPT ![a[1]].BaseValue = StructMarker(TRUE)], Ref(a[1]), Nil)

closeBuiltin(h, a) ==
    LET s == h[a[1]] IN
    IF s.tag # "Vertex"
    THEN Result(h, NewErrf("struct argument must be concrete"), Nil)
    ELSE IF IsClosed(s)
    THEN Result(h, Ref(a[1]), Nil)
    ELSE Result(Append(h, [s EXCEPT !.BaseValue = StructMarker(TRUE)]), Ref(Len(h) + 1), Nil)

\* ---------------------------------------------------------------- and, or
andBuiltinDropLast(h, a) ==
    LET list == Elems(h, a[1]) IN
    IF Len(list) <= 1
    THEN Result(h, Top, Nil)
    ELSE Result(h, [tag |-> "Conjunction", Values |-> SubSeq(list, 1, Len(list) - 1)], Nil)

andBuiltin(h, a) ==
    LET list == Elems(h, a[1]) IN
    IF Len(list) = 0
    THEN Result(h, Top, Nil)
    ELSE Result(h, [tag |-> "Conjunction", Values |-> list], Nil)

Disjunct(val, default) == [Val |-> val, Default |-> default]

orDisjunctsDefault(h, a) ==
    LET list == Elems(h, a[1]) IN
    [i \in 1..Len(list) |-> Disjunct(list[i], i = 1)]

\* the loop of orBuiltin that collects the disjuncts
orDisjuncts(h, a) ==
    LET list == Elems(h, a[1]) IN
    [i \in 1..Len(list) |-> Disjunct(list[i], FALSE)]

DisjunctionExpr(d) == [tag |-> "DisjunctionExpr", Values |-> d, HasDefaults |-> FALSE]

\* v := &adt.Vertex{}; v.AddConjunct(adt.MakeRootConjunct(nil, expr))
NewVertexWith(expr) == Vertex(Nil, <<>>, FALSE, <<expr>>, "Unprocessed")

\* ---------------------------------------------------------------- inputs
SeqsUpTo(S, n) == UNION {[1..k -> S] : k \in 0..n}

\* the arcs of a list are its elements; the arcs of a struct are its fields
ListArcInputs == SeqsUpTo([Label : {"IntLabel"}, val : ElemVals], MaxArcs)

StructArcInputs == SeqsUpTo([Label : Labels \ {"IntLabel"}, val : {"a"}], MaxArcs)

NumInputs ==
    {Num(IF e < 0 THEN FloatKind ELSE IntKind, Decimal(neg, c, e)) :
        neg \in BOOLEAN, c \in 0..MaxCoeff, e \in Exponents}

ScalarInputs ==
    {[tag |-> "Bytes", B |-> [i \in 1..k |-> 0]] : k \in 0..MaxStrLen}
    \cup {[tag |-> "String", Str |-> [i \in 1..k |-> 0]] : k \in 0..MaxStrLen}
    \cup {Bottom(c, "arg") : c \in {"Error", "IncompleteError"}}
    \cup {[tag |-> "BasicType", K |-> k] :
            k \in {{StringKind}, {BytesKind}, {IntKind}, {IntKind, FloatKind}, {BoolKind}}}
    \cup {[tag |-> "Bool"], Top}

VertexInputs ==
    {Vertex(ListMarker, arcs, FALSE, <<>>, "Finalized") : arcs \in ListArcInputs}
    \cup {Vertex(StructMarker(nc), arcs, cl, <<>>, "Finalized") :
            nc \in BOOLEAN, arcs \in StructArcInputs, cl \in BOOLEAN}
    \cup {Vertex(bv, <<>>, FALSE, <<>>, "Finalized") :
            bv \in ScalarInputs \cup {Nil, Num(IntKind, Decimal(FALSE, 3, 0))}}

InputHeaps ==
    {<<o>> : o \in VertexInputs \cup ScalarInputs}
    \cup {<<a, b>> : a \in NumInputs, b \in NumInputs}
    \cup {<<a, b>> : a \in {Num(IntKind, Decimal(FALSE, 7, 0))}, b \in ScalarInputs}
    \cup {<<b, a>> : a \in {Num(IntKind, Decimal(FALSE, 7, 0))}, b \in ScalarInputs}

\* ---------------------------------------------------------------- actions
Init ==
    /\ heap \in InputHeaps
    /\ op = "none"
    /\ args = <<>>
    /\ ret = Nil
    /\ errs = Nil
    /\ pc = "idle"
    /\ v = 0
    /\ unifyCalls = <<>>

Return(name, a, r) ==
    /\ Len(r.heap) <= MaxHeap
    /\ op' = name
    /\ args' = a
    /\ heap' = r.heap
    /\ ret' = r.ret
    /\ errs' = r.errs
    /\ UNCHANGED <<pc, v, unifyCalls>>

Len1 == \E i \in DOMAIN heap : pc = "idle" /\ Return("len", <<i>>, lenBuiltin(heap, <<i>>))

Close == \E i \in DOMAIN heap : pc = "idle" /\ Return("close", <<i>>, closeBuiltin(heap, <<i>>))

And == \E i \in DOMAIN heap : pc = "idle" /\ Return("and", <<i>>, andBuiltin(heap, <<i>>))

OrEmpty ==
    \E i \in DOMAIN heap :
        /\ pc = "idle"
        /\ Len(orDisjuncts(heap, <<i>>)) = 0
        /\ Return("or", <<i>>, Result(heap, Bottom("IncompleteError", "empty list in call to or"), Nil))

OrBuild ==
    \E i \in DOMAIN heap :
        LET d == orDisjuncts(heap, <<i>>) IN
        /\ pc = "idle"
        /\ Len(d) # 0
        /\ Len(heap) < MaxHeap
        /\ heap' = Append(heap, NewVertexWith(DisjunctionExpr(d)))
        /\ v' = Len(heap) + 1
        /\ op' = "or"
        /\ args' = <<i>>
        /\ ret' = Nil
        /\ errs' = Nil
        /\ pc' = "or_unify"
        /\ UNCHANGED unifyCalls

OrUnify ==
    /\ pc = "or_unify"
    /\ heap' = [heap EXCEPT ![v] = Unify(@)]
    /\ unifyCalls' = Append(unifyCalls, v)
    /\ pc' = "or_return"
    /\ UNCHANGED <<op, args, ret, errs, v>>

OrReturn ==
    /\ pc = "or_return"
    /\ ret' = Ref(v)
    /\ pc' = "idle"
    /\ UNCHANGED <<heap, op, args, errs, v, unifyCalls>>

Div == \E i, j \in DOMAIN heap : pc = "idle" /\ Return("div", <<i, j>>, divBuiltin(heap, <<i, j>>))

Mod == \E i, j \in DOMAIN heap : pc = "idle" /\ Return("mod", <<i, j>>, modBuiltin(heap, <<i, j>>))

Quo == \E i, j \in DOMAIN heap : pc = "idle" /\ Return("quo", <<i, j>>, quoBuiltin(heap, <<i, j>>))

Rem == \E i, j \in DOMAIN heap : pc = "idle" /\ Return("rem", <<i, j>>, remBuiltin(heap, <<i, j>>))

Next ==
    \/ Len1
    \/ Close
    \/ And
    \/ OrEmpty
    \/ OrBuild
    \/ OrUnify
    \/ OrReturn
    \/ Div
    \/ Mod
    \/ Quo
    \/ Rem

Spec == Init /\ [][Next]_vars

TypeOK ==
    /\ Len(heap) \in 1..MaxHeap
    /\ pc \in {"idle", "or_unify", "or_return"}
    /\ op \in {"none", "len", "close", "and", "or", "div", "mod", "quo", "rem"}
    /\ args \in SeqsUpTo(DOMAIN heap, 2)
    /\ v \in 0..Len(heap)

\* ---------------------------------------------------------------- properties
DivOps == {"div", "mod", "quo", "rem"}

IsNum(x) == x.tag = "Num"

\* a Num whose decimal denotes an integer, and that integer
IsInteger(x) ==
    /\ IsNum(x)
    /\ (x.X.Exponent >= 0 \/ x.X.Coeff % Pow10(-x.X.Exponent) = 0)

IntOf(x) ==
    LET m == IF x.X.Exponent >= 0
             THEN x.X.Coeff * Pow10(x.X.Exponent)
             ELSE x.X.Coeff \div Pow10(-x.X.Exponent)
    IN IF x.X.Negative THEN -m ELSE m

\* a result in sign-flag / nonnegative-magnitude form with exponent 0
IsIntResult(r) ==
    /\ IsNum(r)
    /\ r.K = IntKind
    /\ r.X.Exponent = 0
    /\ r.X.Coeff >= 0
    /\ (r.X.Negative => r.X.Coeff > 0)

IntegerCall ==
    /\ pc = "idle"
    /\ op \in DivOps
    /\ IsInteger(heap[args[1]])
    /\ IsInteger(heap[args[2]])
    /\ IntOf(heap[args[2]]) # 0

Sign(n) == IF n < 0 THEN -1 ELSE IF n > 0 THEN 1 ELSE 0

\* C1: for integers x and nonzero integers y, div(x,y)*y + mod(x,y) = x and
\* 0 <= mod(x,y) < |y|, the results being in sign-flag/magnitude form.
C1_EuclideanDivMod ==
    (IntegerCall /\ op \in {"div", "mod"}) =>
        LET x == IntOf(heap[args[1]])
            y == IntOf(heap[args[2]])
            q == IF op = "div" THEN ret ELSE divBuiltin(heap, args).ret
            m == IF op = "mod" THEN ret ELSE modBuiltin(heap, args).ret
        IN /\ IsIntResult(q)
           /\ IsIntResult(m)
           /\ IntOf(q) * y + IntOf(m) = x
           /\ 0 <= IntOf(m)
           /\ IntOf(m) < Abs(y)

C1_Witness ==
    /\ IntegerCall
    /\ op = "mod"
    /\ IntOf(heap[args[1]]) = -7
    /\ IntOf(heap[args[2]]) = 2
    /\ ret = Num(IntKind, Decimal(FALSE, 1, 0))

\* C2: for integers x and nonzero integers y, quo(x,y)*y + rem(x,y) = x, quo
\* truncates toward zero, and rem is zero or has the sign of the dividend x.
C2_TruncatedQuoRem ==
    (IntegerCall /\ op \in {"quo", "rem"}) =>
        LET x == IntOf(heap[args[1]])
            y == IntOf(heap[args[2]])
            q == IF op = "quo" THEN ret ELSE quoBuiltin(heap, args).ret
            r == IF op = "rem" THEN ret ELSE remBuiltin(heap, args).ret
        IN /\ IsIntResult(q)
           /\ IsIntResult(r)
           /\ IntOf(q) * y + IntOf(r) = x
           /\ Abs(IntOf(q)) * Abs(y) <= Abs(x)
           /\ Abs(x) < (Abs(IntOf(q)) + 1) * Abs(y)
           /\ Sign(IntOf(r)) \in {0, Sign(x)}

C2_Witness ==
    /\ IntegerCall
    /\ op = "rem"
    /\ IntOf(heap[args[1]]) = -7
    /\ IntOf(heap[args[2]]) = 2
    /\ ret = Num(IntKind, Decimal(TRUE, 1, 0))

\* C3: every div/mod/quo/rem call whose divisor rounds to exactly zero
\* returns Bottom{Error, "division by zero"}: never IncompleteError, and the
\* integer division step is never reached.
C3_RoundedZeroDivisor ==
    (/\ pc = "idle"
     /\ op \in DivOps
     /\ IsNum(heap[args[1]])
     /\ IsNum(heap[args[2]])
     /\ RoundToIntegralValue(heap[args[2]].X).Coeff = 0)
        => ret = Bottom("Error", "division by zero")

IsListVertex(x) == x.tag = "Vertex" /\ x.BaseValue.tag = "ListMarker"

IsStructVertex(x) == x.tag = "Vertex" /\ x.BaseValue.tag = "StructMarker"

Unwrapped(x) ==
    IF x.tag = "Vertex" /\ ~IsListVertex(x) /\ ~IsStructVertex(x) /\ x.BaseValue.tag # "nil"
    THEN x.BaseValue
    ELSE x

\* C4: len returns an Int equal to the number of elements of a list node, the
\* number of Regular-labelled arcs of a struct node (hidden and definition
\* arcs are not counted), and the number of storage units of Bytes/String.
C4_LenCounts ==
    (pc = "idle" /\ op = "len") =>
        LET x == heap[args[1]]
            u == Unwrapped(x)
        IN /\ IsListVertex(x) =>
                ret = NewInt64(Cardinality({i \in DOMAIN x.Arcs : x.Arcs[i].Label = "IntLabel"}))
           /\ IsStructVertex(x) =>
                ret = NewInt64(Cardinality({i \in DOMAIN x.Arcs :
                          x.Arcs[i].Label \notin {"HiddenLabel", "DefinitionLabel"}}))
           /\ u.tag = "Bytes" => ret = NewInt64(Len(u.B))
           /\ u.tag = "String" => ret = NewInt64(Len(u.Str))

C4_Witness ==
    /\ pc = "idle"
    /\ op = "len"
    /\ IsStructVertex(heap[args[1]])
    /\ Len(heap[args[1]].Arcs) = 2
    /\ heap[args[1]].Arcs[1].Label = "HiddenLabel"
    /\ heap[args[1]].Arcs[2].Label = "StringLabel"
    /\ ret = NewInt64(1)

\* C5: close is idempotent: closing the result of close on a struct node
\* returns that same node, and closing an already closed struct returns the
\* argument itself without allocating a node.
C5_CloseIdempotent ==
    [][(op' = "close" /\ IsStructVertex(heap[args'[1]])) =>
          /\ ret'.tag = "ref"
          /\ closeBuiltin(heap', <<ret'.id>>) = Result(heap', ret', Nil)
          /\ IsClosed(heap[args'[1]]) => (ret' = Ref(args'[1]) /\ heap' = heap)]_vars

C5_Witness ==
    /\ op = "close"
    /\ args = <<2>>
    /\ ret = Ref(2)
    /\ Len(heap) = 2
    /\ IsStructVertex(heap[1])
    /\ ~IsClosed(heap[1])
    /\ heap[2] = [heap[1] EXCEPT !.BaseValue = StructMarker(TRUE)]

\* C6: no builtin mutates an input value: every node that exists before a
\* step is unchanged after it (the node or itself allocated and has not yet
\* returned excepted); close on an open struct returns a new closed node with
\* the same arcs and leaves the input open.
C6_InputsNotMutated ==
    [][/\ \A i \in DOMAIN heap :
            \/ pc = "or_unify" /\ i = v
            \/ i \in DOMAIN heap' /\ heap'[i] = heap[i]
       /\ (op' = "close" /\ pc = "idle" /\ IsStructVertex(heap[args'[1]]) /\ ~IsClosed(heap[args'[1]])) =>
            /\ ret'.tag = "ref"
            /\ ret'.id \notin DOMAIN heap
            /\ ret'.id \in DOMAIN heap'
            /\ IsClosed(heap'[ret'.id])
            /\ heap'[ret'.id].Arcs = heap[args'[1]].Arcs
            /\ ~IsClosed(heap'[args'[1]])
            /\ heap'[args'[1]].Arcs = heap[args'[1]].Arcs]_vars

C6_Witness ==
    /\ op = "close"
    /\ args = <<1>>
    /\ ret = Ref(2)
    /\ IsStructVertex(heap[1])
    /\ ~IsClosed(heap[1])
    /\ IsClosed(heap[2])
    /\ Len(heap[1].Arcs) = 2
    /\ heap[2].Arcs = heap[1].Arcs

\* C7: and of an empty list is Top; and of a non-empty list is a Conjunction
\* whose terms are exactly the list's elements, same count and order.
C7_AndFold ==
    (pc = "idle" /\ op = "and" /\ IsListVertex(heap[args[1]])) =>
        LET list == Elems(heap, args[1]) IN
        IF Len(list) = 0
        THEN ret = Top
        ELSE /\ ret.tag = "Conjunction"
             /\ Len(ret.Values) = Len(list)
             /\ \A i \in 1..Len(list) : ret.Values[i] = list[i]

C7_Witness ==
    /\ pc = "idle"
    /\ op = "and"
    /\ IsListVertex(heap[args[1]])
    /\ ret.tag = "Conjunction"
    /\ ret.Values = <<"b", "a">>

Count(s, e) == Cardinality({i \in DOMAIN s : s[i] = e})

\* C8: or of an empty list returns Bottom{IncompleteError} without calling
\* unify; or of a non-empty list builds a fresh node whose single conjunct is
\* the disjunction of the elements in order, all non-default, calls unify on
\* that node exactly once, and only then returns the node.
C8_OrProtocol ==
    [][/\ (pc = "idle" /\ op' = "or" /\ Elems(heap, args'[1]) = <<>>) =>
            /\ pc' = "idle"
            /\ ret'.tag = "Bottom"
            /\ ret'.Code = "IncompleteError"
            /\ unifyCalls' = unifyCalls
            /\ heap' = heap
       /\ (pc = "idle" /\ op' = "or" /\ Elems(heap, args'[1]) # <<>>) =>
            LET list == Elems(heap, args'[1]) IN
            /\ pc' = "or_unify"
            /\ v' \notin DOMAIN heap
            /\ v' \in DOMAIN heap'
            /\ Len(heap'[v'].Conjuncts) = 1
            /\ heap'[v'].Conjuncts[1].tag = "DisjunctionExpr"
            /\ heap'[v'].Conjuncts[1].HasDefaults = FALSE
            /\ Len(heap'[v'].Conjuncts[1].Values) = Len(list)
            /\ \A i \in 1..Len(list) :
                    heap'[v'].Conjuncts[1].Values[i] = Disjunct(list[i], FALSE)
            /\ unifyCalls' = unifyCalls
            /\ ret' # Ref(v')
       /\ pc = "or_unify" =>
            /\ pc' = "or_return"
            /\ Count(unifyCalls, v) = 0
            /\ unifyCalls' = Append(unifyCalls, v)
            /\ heap'[v].Conjuncts = heap[v].Conjuncts
            /\ heap'[v].status = "Finalized"
            /\ ret' # Ref(v)
       /\ pc = "or_return" =>
            /\ pc' = "idle"
            /\ ret' = Ref(v)
            /\ Count(unifyCalls', v) = 1
            /\ heap' = heap]_vars

C8_Witness ==
    /\ pc = "idle"
    /\ op = "or"
    /\ ret = Ref(2)
    /\ unifyCalls = <<2>>
    /\ heap[2].status = "Finalized"
    /\ heap[2].Conjuncts = <<DisjunctionExpr(<<Disjunct("a", FALSE), Disjunct("b", FALSE)>>)>>

CarriesBottom(x) ==
    \/ x.tag = "Bottom"
    \/ x.tag = "Vertex" /\ x.BaseValue.tag = "Bottom"

\* C9: a builtin given an argument that carries a Bottom returns that same
\* Bottom unchanged (len, close; div/mod/quo/rem when a numeric conversion
\* fails), and every failure of a builtin is returned as a Bottom value.
C9_BottomPropagated ==
    pc = "idle" =>
        /\ (op \in {"len", "close"} /\ CarriesBottom(heap[args[1]])) =>
                ret = Unwrapped(heap[args[1]])
        /\ (op \in DivOps /\ ~NumConv(heap[args[1]]).ok) => ret = NumConv(heap[args[1]]).err
        /\ (op \in DivOps /\ NumConv(heap[args[1]]).ok /\ ~NumConv(heap[args[2]]).ok) =>
                ret = NumConv(heap[args[2]]).err
        /\ op # "none" => ret.tag \notin {"nil", "panic"}

\* C10: len on a value that is no list node, struct node, Bytes or String
\* returns Error "invalid argument type" exactly when the kind does not
\* intersect Struct|Bytes|String|List, and IncompleteError "incomplete
\* argument" exactly when it does and the value is not concrete; a node with
\* no resolved marker yields Error "unevaluated".
C10_LenFailures ==
    (pc = "idle" /\ op = "len") =>
        LET x == heap[args[1]]
            u == Unwrapped(x)
        IN /\ (x.tag = "Vertex" /\ x.BaseValue.tag = "nil") =>
                ret = Bottom("Error", "unevaluated vertex")
           /\ (/\ ~(x.tag = "Vertex" /\ x.BaseValue.tag = "nil")
               /\ ~IsListVertex(x) /\ ~IsStructVertex(x)
               /\ u.tag \notin {"Bytes", "String"}) =>
                /\ ret.tag = "Bottom"
                /\ ret = Bottom("Error", "invalid argument type")
                        <=> (Kind(u) \cap supportedByLen = {})
                /\ ret = Bottom("IncompleteError", "incomplete argument")
                        <=> (Kind(u) \cap supportedByLen # {} /\ ~IsConcrete(u))

C10_Witness ==
    /\ pc = "idle"
    /\ op = "len"
    /\ heap[args[1]] = [tag |-> "BasicType", K |-> {StringKind}]
    /\ ret = Bottom("IncompleteError", "incomplete argument")
====
